---- MODULE Spec2Model ----
(***************************************************************************)
(* net/dsa/dsa2.c: the registry of DSA switch trees, the completion of a   *)
(* tree's inter-switch links into routing tables, the parsing of its CPU   *)
(* ports, apply/unapply, and dsa_register_switch / dsa_unregister_switch.  *)
(*                                                                         *)
(* The C functions are operators over a record w ("the world"): the list   *)
(* dsa_switch_trees, the heap of struct dsa_switch_tree objects, the       *)
(* struct dsa_switch objects of the drivers and the master devices'        *)
(* dsa_ptr.  Every operator computes what its function computes, loop by   *)
(* loop, early returns included.                                           *)
(***************************************************************************)
EXTENDS Integers, Sequences, FiniteSets, TLC

VARIABLES w, probed, last, calls, alt, mutex, thread

vars == <<w, probed, last, calls, alt, mutex, thread>>

(***************************************************************************)
(* Bounds of the model.                                                    *)
(***************************************************************************)
\* Number of struct dsa_switch_tree objects kzalloc can hand out before it
\* returns NULL.
MaxTreeObjs == 2
\* dsa_register_switch / dsa_unregister_switch calls in one behaviour.
MaxCalls == 4
\* Slots of dst->ds[] (DSA_MAX_SWITCHES of include/net/dsa.h).
DSA_MAX_SWITCHES == 3

(***************************************************************************)
(* Values.                                                                 *)
(***************************************************************************)
NULL == "NULL"
\* a NULL struct dsa_switch_tree *, and the list node &dsa_switch_trees
NULL_DST == 0
HEAD == 0
LIST_POISON == -1
DSA_RTABLE_NONE == -1

OK == "0"
INCOMPLETE == "1"
EINVAL == "-EINVAL"
EBUSY == "-EBUSY"
ENOMEM == "-ENOMEM"
EPROBE_DEFER == "-EPROBE_DEFER"
\* the error of a chip driver or of a collaborator (setup, notifier, ...)
EIO == "-EIO"
\* dsa_resolve_tag_protocol's ERR_PTR
ENOPROTOOPT == "-ENOPROTOOPT"

TreeObjs == 1..MaxTreeObjs
Nodes == 0..MaxTreeObjs
Slots == 0..(DSA_MAX_SWITCHES - 1)

Min(S) == CHOOSE x \in S : \A y \in S : x <= y

(***************************************************************************)
(* The switches of the drivers: for each, what dsa_parse_member_dn reads   *)
(* ("dsa,member": tree and index), the ports dsa_parse_ports_dn leaves in  *)
(* ds->ports[] (dn: the port's device node; link: the node's "link"        *)
(* phandles in order; ethernet: the device of its "ethernet" phandle;      *)
(* name: the platform-data name), and the optional operations of ds->ops.  *)
(***************************************************************************)
NoPort == [dn |-> NULL, name |-> NULL, link |-> <<>>, ethernet |-> NULL]
UserPort(dn) == [dn |-> dn, name |-> NULL, link |-> <<>>, ethernet |-> NULL]
DsaPort(dn, link) == [dn |-> dn, name |-> NULL, link |-> link, ethernet |-> NULL]
CpuPort(dn, eth) == [dn |-> dn, name |-> NULL, link |-> <<>>, ethernet |-> eth]

Switch(tree, index, ports, set_addr, phy_read) ==
    [of_node |-> TRUE, tree |-> tree, index |-> index, ports |-> ports,
     set_addr |-> set_addr, phy_read |-> phy_read]

\* Tree 1: s0 and s1 link to each other (s0 port 2 <-> s1 port 0), the CPU
\* port is s1 port 3; s2 has one port with two links, the second to a node
\* that is no port of tree 1.  Tree 2: c has two CPU ports and a user port,
\* u has a single user port.
Catalogue ==
    [s \in {"s0", "s1", "s2", "c", "u"} |->
        CASE s = "s0" -> Switch(1, 0, <<UserPort("s0p0"), NoPort,
                                        DsaPort("s0p2", <<"s1p0">>)>>, FALSE, FALSE)
          [] s = "s1" -> Switch(1, 1, <<DsaPort("s1p0", <<"s0p2">>), UserPort("s1p1"),
                                        NoPort, CpuPort("s1p3", "eth0")>>, TRUE, TRUE)
          [] s = "s2" -> Switch(1, 2, <<DsaPort("s2p0", <<"s1p0", "c2">>)>>, FALSE, FALSE)
          [] s = "c"  -> Switch(2, 0, <<CpuPort("c0", "eth0"), CpuPort("c1", "eth1"),
                                        UserPort("c2")>>, FALSE, FALSE)
          [] s = "u"  -> Switch(2, 1, <<UserPort("u0")>>, FALSE, FALSE)]

NetDevs == {"eth0", "eth1"}

Switches(W) == DOMAIN W.cfg
num_ports(W, s) == Len(W.cfg[s].ports)
PortIdx(W, s) == 0..(num_ports(W, s) - 1)
Port(W, s, i) == W.cfg[s].ports[i + 1]

(***************************************************************************)
(* Port classes.                                                           *)
(***************************************************************************)
\* of_parse_phandle(dn, "link", index): NULL past the last phandle, and for
\* a NULL node.
of_parse_phandle_link(port, index) ==
    IF port.dn # NULL /\ index < Len(port.link) THEN port.link[index + 1] ELSE NULL

\* of_parse_phandle(dn, "ethernet", 0) is non-NULL
has_ethernet_phandle(port) == port.dn # NULL /\ port.ethernet # NULL

dsa_port_is_valid(port) == port.dn # NULL \/ port.name # NULL

dsa_port_is_dsa(port) ==
    IF port.name # NULL /\ port.name = "dsa" THEN TRUE
    ELSE of_parse_phandle_link(port, 0) # NULL

dsa_port_is_cpu(port) ==
    IF port.name # NULL /\ port.name = "cpu" THEN TRUE
    ELSE has_ethernet_phandle(port)

(***************************************************************************)
(* The objects.                                                            *)
(***************************************************************************)
\* a struct dsa_switch as dsa_switch_alloc (devm_kzalloc) leaves it, with
\* what the collaborators hold for it: netdev (the ports with a slave
\* device), uplink (the ports dsa_cpu_dsa_setup has set up), notifier,
\* mii_registered, ethtool (dsa_cpu_port_ethtool_setup done).
dsa_switch_alloc ==
    [dst |-> NULL_DST, index |-> 0, rtable |-> [i \in Slots |-> 0],
     enabled_port_mask |-> {}, cpu_port_mask |-> {}, dsa_port_mask |-> {},
     phys_mii_mask |-> {}, master_netdev |-> NULL, slave_mii_bus |-> FALSE,
     netdev |-> {}, uplink |-> {}, notifier |-> FALSE, mii_registered |-> FALSE,
     ethtool |-> FALSE]

\* a struct dsa_switch_tree as kzalloc leaves it; alive is FALSE for memory
\* that is not allocated (never, or kfree'd)
ZeroDst ==
    [alive |-> FALSE, tree |-> 0, refcount |-> 0, ds |-> [i \in Slots |-> NULL],
     applied |-> FALSE, master_netdev |-> NULL, cpu_switch |-> NULL, cpu_port |-> 0,
     tag_ops |-> NULL]

World(cfg) ==
    [cfg |-> cfg,
     lnext |-> [n \in Nodes |-> IF n = HEAD THEN HEAD ELSE LIST_POISON],
     lprev |-> [n \in Nodes |-> IF n = HEAD THEN HEAD ELSE LIST_POISON],
     dst |-> [d \in TreeObjs |-> ZeroDst],
     ds |-> [s \in DOMAIN cfg |-> dsa_switch_alloc],
     dsa_ptr |-> [n \in NetDevs |-> NULL_DST]]

(***************************************************************************)
(* <linux/list.h>                                                          *)
(***************************************************************************)
INIT_LIST_HEAD(W, list) ==
    [W EXCEPT !.lnext[list] = list, !.lprev[list] = list]

\* __list_add(new, prev, next)
list_add(W, new, prev, next) ==
    LET W1 == [W EXCEPT !.lprev[next] = new]
        W2 == [W1 EXCEPT !.lnext[new] = next]
        W3 == [W2 EXCEPT !.lprev[new] = prev]
    IN  [W3 EXCEPT !.lnext[prev] = new]

\* list_add_tail(new, head): insert new before head
list_add_tail(W, new, head) == list_add(W, new, W.lprev[head], head)

\* list_del(entry): __list_del(entry->prev, entry->next), then poison
list_del(W, entry) ==
    LET prev == W.lprev[entry]
        next == W.lnext[entry]
        W1 == [W EXCEPT !.lprev[next] = prev]
        W2 == [W1 EXCEPT !.lnext[prev] = next]
    IN  [W2 EXCEPT !.lnext[entry] = LIST_POISON, !.lprev[entry] = LIST_POISON]

(***************************************************************************)
(* The registry.                                                           *)
(***************************************************************************)
\* list_for_each_entry(dst, &dsa_switch_trees, list) from pos: the first
\* entry whose tree is `tree`, NULL_DST at the head.  (ListSound: the walk
\* meets allocated entries only.)
RECURSIVE list_find(_, _, _, _)
list_find(W, pos, tree, fuel) ==
    IF pos = HEAD \/ pos = LIST_POISON \/ fuel = 0 THEN NULL_DST
    ELSE IF W.dst[pos].alive /\ W.dst[pos].tree = tree THEN pos
    ELSE list_find(W, W.lnext[pos], tree, fuel - 1)

kref_get(W, d) == [W EXCEPT !.dst[d].refcount = @ + 1]

dsa_get_dst(W, tree) ==
    LET d == list_find(W, W.lnext[HEAD], tree, MaxTreeObjs)
    IN  IF d # NULL_DST THEN [w |-> kref_get(W, d), dst |-> d]
        ELSE [w |-> W, dst |-> NULL_DST]

\* list_del(&dst->list); kfree(dst)
dsa_free_dst(W, d) ==
    LET W1 == list_del(W, d)
    IN  [W1 EXCEPT !.dst[d] = ZeroDst]

\* kref_put(&dst->refcount, dsa_free_dst)
kref_put(W, d) ==
    IF W.dst[d].refcount = 1 THEN dsa_free_dst(W, d)
    ELSE [W EXCEPT !.dst[d].refcount = @ - 1]

dsa_put_dst(W, d) == kref_put(W, d)

\* the list insertion of dsa_add_dst, with its arguments as written
dsa_add_dst_link(W, d) == list_add_tail(W, HEAD, d)

dsa_add_dst(W, tree) ==
    LET free == {d \in TreeObjs : ~W.dst[d].alive}
    IN  IF free = {} THEN [w |-> W, dst |-> NULL_DST]
        ELSE LET d == Min(free)
                 W1 == [W EXCEPT !.dst[d] = [ZeroDst EXCEPT !.alive = TRUE,
                                                            !.tree = tree]]
                 W2 == INIT_LIST_HEAD(W1, d)
                 W3 == dsa_add_dst_link(W2, d)
             IN  [w |-> [W3 EXCEPT !.dst[d].refcount = 1], dst |-> d]

dsa_dst_add_ds(W, d, s, index) ==
    [kref_get(W, d) EXCEPT !.dst[d].ds[index] = s]

dsa_dst_del_ds(W, d, s, index) ==
    kref_put([W EXCEPT !.dst[d].ds[index] = NULL], d)

\* `r` when it is an error, and else what `Rest` makes of the world r leaves:
\* "err = f(...); if (err) return err;" followed by the rest of the function
Then(r, Rest(_)) == IF r.err # OK THEN r ELSE Rest(r.w)

(***************************************************************************)
(* Completion of the tree: every "link" phandle of every DSA port points   *)
(* to a port known in the tree.  The results are records [w, err].         *)
(***************************************************************************)
dsa_ds_find_port_dn(W, s, port) ==
    \E index \in PortIdx(W, s) : Port(W, s, index).dn = port

\* the switch of the first slot that holds the port, NULL without one
dsa_dst_find_port_dn(W, d, port) ==
    LET found == {index \in Slots : /\ W.dst[d].ds[index] # NULL
                                    /\ dsa_ds_find_port_dn(W, W.dst[d].ds[index], port)}
    IN  IF found = {} THEN NULL ELSE W.dst[d].ds[Min(found)]

\* the loop of dsa_port_complete from link number `index`
\* dsa_port_complete stopping after the link at `index`, the later links of
\* the port never looked at
dsa_port_complete_first_link(W, d, src_ds, src_port, index) ==
    LET link == of_parse_phandle_link(Port(W, src_ds, src_port), index)
        dst_ds == dsa_dst_find_port_dn(W, d, link)
    IN  IF link = NULL THEN [w |-> W, err |-> OK]
        ELSE IF dst_ds = NULL THEN [w |-> W, err |-> INCOMPLETE]
        ELSE [w |-> [W EXCEPT !.ds[src_ds].rtable[W.ds[dst_ds].index] = src_port],
              err |-> OK]

RECURSIVE dsa_port_complete(_, _, _, _, _)
dsa_port_complete(W, d, src_ds, src_port, index) ==
    LET link == of_parse_phandle_link(Port(W, src_ds, src_port), index)
        dst_ds == dsa_dst_find_port_dn(W, d, link)
    IN  IF link = NULL THEN [w |-> W, err |-> OK]
        ELSE IF dst_ds = NULL THEN [w |-> W, err |-> INCOMPLETE]
        ELSE dsa_port_complete(
                 [W EXCEPT !.ds[src_ds].rtable[W.ds[dst_ds].index] = src_port],
                 d, src_ds, src_port, index + 1)

\* the loop of dsa_ds_complete from port `index`
RECURSIVE dsa_ds_complete(_, _, _, _)
dsa_ds_complete(W, d, s, index) ==
    IF index >= num_ports(W, s) THEN [w |-> W, err |-> OK]
    ELSE LET port == Port(W, s, index) IN
         IF ~dsa_port_is_valid(port) THEN dsa_ds_complete(W, d, s, index + 1)
         ELSE IF ~dsa_port_is_dsa(port) THEN dsa_ds_complete(W, d, s, index + 1)
         ELSE Then(dsa_port_complete(W, d, s, index, 0),
                   LAMBDA W1 : dsa_ds_complete(
                       [W1 EXCEPT !.ds[s].dsa_port_mask = @ \cup {index}],
                       d, s, index + 1))

\* the loop of dsa_dst_complete from slot `index`
RECURSIVE dsa_dst_complete(_, _, _)
dsa_dst_complete(W, d, index) ==
    IF index >= DSA_MAX_SWITCHES THEN [w |-> W, err |-> OK]
    ELSE LET s == W.dst[d].ds[index] IN
         IF s = NULL THEN dsa_dst_complete(W, d, index + 1)
         ELSE Then(dsa_ds_complete(W, d, s, 0),
                   LAMBDA W1 : dsa_dst_complete(W1, d, index + 1))

(***************************************************************************)
(* What the collaborators answer during one call: live, the master devices *)
(* of_find_net_device_by_node finds; tagOK, whether the tag protocol of    *)
(* get_tag_protocol has a tagger; fail, the one step <<switch, step, port>>*)
(* of apply that returns an error (NoFail: none); slaveFail, the user      *)
(* ports <<switch, port>> whose dsa_slave_create fails.                    *)
(***************************************************************************)
NoFail == <<NULL, NULL, 0>>
Fails(env, s, step, port) == env.fail = <<s, step, port>>

(***************************************************************************)
(* Apply and unapply.                                                      *)
(***************************************************************************)
dsa_dsa_port_apply(W, env, index, s) ==
    IF Fails(env, s, "port", index) THEN [w |-> W, err |-> EIO]
    ELSE [w |-> [W EXCEPT !.ds[s].uplink = @ \cup {index}], err |-> OK]

dsa_dsa_port_unapply(W, index, s) ==
    [W EXCEPT !.ds[s].uplink = @ \ {index}]

dsa_cpu_port_apply(W, env, index, s) ==
    IF Fails(env, s, "port", index) THEN [w |-> W, err |-> EIO]
    ELSE [w |-> [W EXCEPT !.ds[s].uplink = @ \cup {index},
                          !.ds[s].cpu_port_mask = @ \cup {index}],
          err |-> OK]

dsa_cpu_port_unapply(W, index, s) ==
    [W EXCEPT !.ds[s].uplink = @ \ {index},
              !.ds[s].cpu_port_mask = @ \ {index}]

dsa_user_port_apply(W, env, index, s) ==
    IF <<s, index>> \in env.slaveFail
    THEN [w |-> [W EXCEPT !.ds[s].netdev = @ \ {index}], err |-> EIO]
    ELSE [w |-> [W EXCEPT !.ds[s].netdev = @ \cup {index}], err |-> OK]

dsa_user_port_unapply(W, index, s) ==
    IF index \in W.ds[s].netdev
    THEN [W EXCEPT !.ds[s].netdev = @ \ {index},
                   !.ds[s].enabled_port_mask = @ \ {index}]
    ELSE W

\* the port loop of dsa_ds_apply from port `index`
RECURSIVE dsa_ds_apply_ports(_, _, _, _)
dsa_ds_apply_ports(W, env, s, index) ==
    IF index >= num_ports(W, s) THEN [w |-> W, err |-> OK]
    ELSE LET port == Port(W, s, index) IN
         IF ~dsa_port_is_valid(port) THEN dsa_ds_apply_ports(W, env, s, index + 1)
         ELSE IF dsa_port_is_dsa(port)
         THEN Then(dsa_dsa_port_apply(W, env, index, s),
                   LAMBDA W1 : dsa_ds_apply_ports(W1, env, s, index + 1))
         ELSE IF dsa_port_is_cpu(port)
         THEN Then(dsa_cpu_port_apply(W, env, index, s),
                   LAMBDA W1 : dsa_ds_apply_ports(W1, env, s, index + 1))
         ELSE dsa_ds_apply_ports(dsa_user_port_apply(W, env, index, s).w,
                                 env, s, index + 1)

dsa_ds_apply(W, env, d, s) ==
    LET W1 == [W EXCEPT !.ds[s].phys_mii_mask = W.ds[s].enabled_port_mask]
        W2 == [W1 EXCEPT !.ds[s].notifier = TRUE]
        bus == ~W2.ds[s].slave_mii_bus /\ W2.cfg[s].phy_read
        W3 == IF bus THEN [W2 EXCEPT !.ds[s].slave_mii_bus = TRUE] ELSE W2
        W4 == IF bus THEN [W3 EXCEPT !.ds[s].mii_registered = TRUE] ELSE W3
    IN  IF Fails(env, s, "setup", 0) THEN [w |-> W1, err |-> EIO]
        ELSE IF Fails(env, s, "notifier", 0) THEN [w |-> W1, err |-> EIO]
        ELSE IF W2.cfg[s].set_addr /\ Fails(env, s, "set_addr", 0)
             THEN [w |-> W2, err |-> EIO]
        ELSE IF bus /\ Fails(env, s, "mdiobus_alloc", 0) THEN [w |-> W2, err |-> ENOMEM]
        ELSE IF bus /\ Fails(env, s, "mdiobus_register", 0) THEN [w |-> W3, err |-> EIO]
        ELSE dsa_ds_apply_ports(W4, env, s, 0)

\* the port loop of dsa_ds_unapply from port `index`
RECURSIVE dsa_ds_unapply_ports(_, _, _)
dsa_ds_unapply_ports(W, s, index) ==
    IF index >= num_ports(W, s) THEN W
    ELSE LET port == Port(W, s, index) IN
         IF ~dsa_port_is_valid(port) THEN dsa_ds_unapply_ports(W, s, index + 1)
         ELSE IF dsa_port_is_dsa(port)
         THEN dsa_ds_unapply_ports(dsa_dsa_port_unapply(W, index, s), s, index + 1)
         ELSE IF dsa_port_is_cpu(port)
         THEN dsa_ds_unapply_ports(dsa_cpu_port_unapply(W, index, s), s, index + 1)
         ELSE dsa_ds_unapply_ports(dsa_user_port_unapply(W, index, s), s, index + 1)

dsa_ds_unapply(W, d, s) ==
    LET W1 == dsa_ds_unapply_ports(W, s, 0)
        W2 == IF W1.ds[s].slave_mii_bus /\ W1.cfg[s].phy_read
              THEN [W1 EXCEPT !.ds[s].mii_registered = FALSE] ELSE W1
    IN  [W2 EXCEPT !.ds[s].notifier = FALSE]

\* the switch loop of dsa_dst_apply from slot `index`
RECURSIVE dsa_dst_apply_switches(_, _, _, _)
dsa_dst_apply_switches(W, env, d, index) ==
    IF index >= DSA_MAX_SWITCHES THEN [w |-> W, err |-> OK]
    ELSE LET s == W.dst[d].ds[index] IN
         IF s = NULL THEN dsa_dst_apply_switches(W, env, d, index + 1)
         ELSE Then(dsa_ds_apply(W, env, d, s),
                   LAMBDA W1 : dsa_dst_apply_switches(W1, env, d, index + 1))

\* lines 402-406 of dsa_dst_apply: the statistics of the CPU switch
dsa_dst_apply_ethtool(W, env, d) ==
    LET cpu == W.dst[d].cpu_switch
    IN  IF cpu = NULL THEN [w |-> W, err |-> OK]
        ELSE IF Fails(env, cpu, "ethtool", 0) THEN [w |-> W, err |-> EIO]
        ELSE [w |-> [W EXCEPT !.ds[cpu].ethtool = TRUE], err |-> OK]

\* lines 408-416 of dsa_dst_apply: master_netdev->dsa_ptr and dst->applied
dsa_dst_apply_hook(W, d) ==
    [w |-> [W EXCEPT !.dsa_ptr[W.dst[d].master_netdev] = d,
                     !.dst[d].applied = TRUE],
     err |-> OK]

\* lines 402-416 of dsa_dst_apply: after the loop
dsa_dst_apply_tail(W, env, d) ==
    Then(dsa_dst_apply_ethtool(W, env, d),
         LAMBDA W1 : dsa_dst_apply_hook(W1, d))

dsa_dst_apply(W, env, d) ==
    Then(dsa_dst_apply_switches(W, env, d, 0),
         LAMBDA W1 : dsa_dst_apply_tail(W1, env, d))

\* the switch loop of dsa_dst_unapply from slot `index`
RECURSIVE dsa_dst_unapply_switches(_, _, _)
dsa_dst_unapply_switches(W, d, index) ==
    IF index >= DSA_MAX_SWITCHES THEN W
    ELSE LET s == W.dst[d].ds[index] IN
         IF s = NULL THEN dsa_dst_unapply_switches(W, d, index + 1)
         ELSE dsa_dst_unapply_switches(dsa_ds_unapply(W, d, s), d, index + 1)

\* the hook left on the master device while the switches are torn down
dsa_dst_unapply_hook_late(W, d) == W

\* line 427 of dsa_dst_unapply: master_netdev->dsa_ptr = NULL
dsa_dst_unapply_hook(W, d) ==
    [W EXCEPT !.dsa_ptr[W.dst[d].master_netdev] = NULL_DST]

\* lines 443-447 of dsa_dst_unapply: after the loop
dsa_dst_unapply_tail(W, d) ==
    LET cpu == W.dst[d].cpu_switch
        W1 == IF cpu # NULL THEN [W EXCEPT !.ds[cpu].ethtool = FALSE] ELSE W
    IN  [W1 EXCEPT !.dst[d].applied = FALSE]

dsa_dst_unapply(W, d) ==
    IF ~W.dst[d].applied THEN W
    ELSE dsa_dst_unapply_tail(
             dsa_dst_unapply_switches(dsa_dst_unapply_hook(W, d), d, 0), d)

(***************************************************************************)
(* Parsing of the CPU ports: the master device and the tag protocol.       *)
(***************************************************************************)
\* dsa_cpu_parse without lines 477-480: no CPU switch and port are elected
dsa_cpu_parse_no_election(W, env, index, d, s) ==
    LET port == Port(W, s, index)
        ethernet_dev == IF port.ethernet \in env.live THEN port.ethernet ELSE NULL
        W1 == IF W.ds[s].master_netdev = NULL
              THEN [W EXCEPT !.ds[s].master_netdev = ethernet_dev] ELSE W
        W2 == IF W1.dst[d].master_netdev = NULL
              THEN [W1 EXCEPT !.dst[d].master_netdev = ethernet_dev] ELSE W1
    IN  IF port.dn # NULL /\ ~has_ethernet_phandle(port) THEN [w |-> W, err |-> EINVAL]
        ELSE IF ethernet_dev = NULL THEN [w |-> W, err |-> EPROBE_DEFER]
        ELSE IF ~env.tagOK
             THEN [w |-> [W2 EXCEPT !.dst[d].tag_ops = "ERR_PTR"], err |-> ENOPROTOOPT]
        ELSE [w |-> [W2 EXCEPT !.dst[d].tag_ops = "tag_ops"], err |-> OK]

dsa_cpu_parse(W, env, index, d, s) ==
    LET port == Port(W, s, index)
        \* of_find_net_device_by_node / dsa_dev_to_net_device
        ethernet_dev == IF port.ethernet \in env.live THEN port.ethernet ELSE NULL
        W1 == IF W.ds[s].master_netdev = NULL
              THEN [W EXCEPT !.ds[s].master_netdev = ethernet_dev] ELSE W
        W2 == IF W1.dst[d].master_netdev = NULL
              THEN [W1 EXCEPT !.dst[d].master_netdev = ethernet_dev] ELSE W1
        W3 == IF W2.dst[d].cpu_switch = NULL
              THEN [W2 EXCEPT !.dst[d].cpu_switch = s, !.dst[d].cpu_port = index]
              ELSE W2
    IN  IF port.dn # NULL /\ ~has_ethernet_phandle(port) THEN [w |-> W, err |-> EINVAL]
        ELSE IF ethernet_dev = NULL THEN [w |-> W, err |-> EPROBE_DEFER]
        ELSE IF ~env.tagOK
             THEN [w |-> [W3 EXCEPT !.dst[d].tag_ops = "ERR_PTR"], err |-> ENOPROTOOPT]
        ELSE [w |-> [W3 EXCEPT !.dst[d].tag_ops = "tag_ops"], err |-> OK]

\* the port loop of dsa_ds_parse from port `index`
RECURSIVE dsa_ds_parse(_, _, _, _, _)
dsa_ds_parse(W, env, d, s, index) ==
    IF index >= num_ports(W, s) THEN [w |-> W, err |-> OK]
    ELSE LET port == Port(W, s, index) IN
         IF ~dsa_port_is_valid(port) THEN dsa_ds_parse(W, env, d, s, index + 1)
         ELSE IF dsa_port_is_cpu(port)
         THEN Then(dsa_cpu_parse(W, env, index, d, s),
                   LAMBDA W1 : dsa_ds_parse(W1, env, d, s, index + 1))
         ELSE dsa_ds_parse(W, env, d, s, index + 1)

\* the switch loop of dsa_dst_parse from slot `index`
RECURSIVE dsa_dst_parse_switches(_, _, _, _)
dsa_dst_parse_switches(W, env, d, index) ==
    IF index >= DSA_MAX_SWITCHES THEN [w |-> W, err |-> OK]
    ELSE LET s == W.dst[d].ds[index] IN
         IF s = NULL THEN dsa_dst_parse_switches(W, env, d, index + 1)
         ELSE Then(dsa_ds_parse(W, env, d, s, 0),
                   LAMBDA W1 : dsa_dst_parse_switches(W1, env, d, index + 1))

dsa_dst_parse(W, env, d) ==
    Then(dsa_dst_parse_switches(W, env, d, 0),
         LAMBDA W1 : IF W1.dst[d].master_netdev = NULL THEN [w |-> W1, err |-> EINVAL]
                     ELSE [w |-> W1, err |-> OK])

(***************************************************************************)
(* Registration.                                                           *)
(***************************************************************************)
\* dsa_parse_ports_dn / dsa_parse_ports: enabled_port_mask gets every port
\* with a node (a name) that is not a CPU port
dsa_parse_ports(W, s) ==
    [W EXCEPT !.ds[s].enabled_port_mask =
        @ \cup {reg \in PortIdx(W, s) : /\ dsa_port_is_valid(Port(W, s, reg))
                                        /\ ~dsa_port_is_cpu(Port(W, s, reg))}]

\* dsa_parse_member_dn / dsa_parse_member
member_tree(W, s) == IF W.cfg[s].of_node THEN W.cfg[s].tree ELSE 0
member_index(W, s) == IF W.cfg[s].of_node THEN W.cfg[s].index ELSE 0

\* What a call of _dsa_register_switch returns, with what it went through:
\* w the world it leaves and err its return value; dst the tree it worked on;
\* complete the value of dsa_dst_complete (NULL when not called) with the
\* worlds before (w0) and after (w1) it; parse and apply the values of
\* dsa_dst_parse and dsa_dst_apply (NULL when not called).
Returned(W, err, d, complete, w0, w1, parse, apply) ==
    [w |-> W, err |-> err, dst |-> d, complete |-> complete, w0 |-> w0, w1 |-> w1,
     parse |-> parse, apply |-> apply]

\* out_del_dst: dsa_dst_del_ds(dst, ds, ds->index); out: dsa_put_dst(dst)
out_del_dst(W, d, s) == dsa_put_dst(dsa_dst_del_ds(W, d, s, W.ds[s].index), d)

\* register_applied leaving by `out` after a failed apply, the switch kept
\* in its slot
register_applied_out(a, s, d, c, W3, p) ==
    Returned(dsa_put_dst(IF a.err # OK THEN dsa_dst_unapply(a.w, d) ELSE a.w, d),
             a.err, d, c.err, W3, c.w, p.err, a.err)

\* lines 725-740: with a, the result of dsa_dst_apply
register_applied(a, s, d, c, W3, p) ==
    IF a.err # OK
    THEN Returned(out_del_dst(dsa_dst_unapply(a.w, d), d, s), a.err, d,
                  c.err, W3, c.w, p.err, a.err)
    ELSE Returned(dsa_put_dst(a.w, d), OK, d, c.err, W3, c.w, p.err, a.err)

\* lines 715-723: with p, the result of dsa_dst_parse
register_parsed(p, env, s, d, c, W3) ==
    IF p.err = EPROBE_DEFER
    THEN Returned(dsa_dst_del_ds(p.w, d, s, p.w.ds[s].index), p.err, d,
                  c.err, W3, c.w, p.err, NULL)
    ELSE IF p.err # OK
    THEN Returned(out_del_dst(p.w, d, s), p.err, d, c.err, W3, c.w, p.err, NULL)
    ELSE register_applied(dsa_dst_apply(p.w, env, d), s, d, c, W3, p)

\* register_completed leaving by out_del_dst, the tree unapplied, when the
\* tree is found applied
register_completed_undo(c, env, s, d, W3) ==
    IF c.err = INCOMPLETE
    THEN Returned(dsa_put_dst(c.w, d), OK, d, c.err, W3, c.w, NULL, NULL)
    ELSE IF c.w.dst[d].applied
    THEN Returned(out_del_dst(dsa_dst_unapply(c.w, d), d, s), EINVAL, d,
                  c.err, W3, c.w, NULL, NULL)
    ELSE register_parsed(dsa_dst_parse(c.w, env, d), env, s, d, c, W3)

\* lines 700-713: with c, the result of dsa_dst_complete (never negative)
register_completed(c, env, s, d, W3) ==
    IF c.err = INCOMPLETE
    THEN Returned(dsa_put_dst(c.w, d), OK, d, c.err, W3, c.w, NULL, NULL)
    ELSE IF c.w.dst[d].applied
    THEN Returned(c.w, EINVAL, d, c.err, W3, c.w, NULL, NULL)
    ELSE register_parsed(dsa_dst_parse(c.w, env, d), env, s, d, c, W3)

\* lines 690-698: the switch takes its slot
register_claim(W, s, d, index) ==
    LET W1 == [W EXCEPT !.ds[s].dst = d, !.ds[s].index = index,
                        !.ds[s].rtable = [i \in Slots |-> DSA_RTABLE_NONE]]
    IN  dsa_dst_add_ds(W1, d, s, index)

register_claimed(W3, env, s, d) ==
    register_completed(dsa_dst_complete(W3, d, 0), env, s, d, W3)

\* lines 685-740: from the test of the slot on
register_in_tree(W, env, s, d, index) ==
    IF W.dst[d].ds[index] # NULL
    THEN Returned(dsa_put_dst(W, d), EBUSY, d, NULL, W, W, NULL, NULL)
    ELSE register_claimed(register_claim(W, s, d, index), env, s, d)

\* lines 680-682: with n, the result of dsa_add_dst
register_add_dst(n, W1, env, s, index) ==
    IF n.dst = NULL_DST
    THEN Returned(W1, ENOMEM, NULL_DST, NULL, W1, W1, NULL, NULL)
    ELSE register_in_tree(n.w, env, s, n.dst, index)

\* lines 678-683: with g, the result of dsa_get_dst, and W1, the world after
\* the ports are parsed
register_get_dst(g, W1, env, s, tree, index) ==
    IF g.dst # NULL_DST THEN register_in_tree(g.w, env, s, g.dst, index)
    ELSE register_add_dst(dsa_add_dst(W1, tree), W1, env, s, index)

register_parsed_ports(W1, env, s, tree, index) ==
    register_get_dst(dsa_get_dst(W1, tree), W1, env, s, tree, index)

dsa_register_switch(W, s, env) ==
    IF member_index(W, s) >= DSA_MAX_SWITCHES
    THEN Returned(W, EINVAL, NULL_DST, NULL, W, W, NULL, NULL)
    ELSE register_parsed_ports(dsa_parse_ports(W, s), env, s,
                               member_tree(W, s), member_index(W, s))

(***************************************************************************)
(* Unregistration.                                                         *)
(***************************************************************************)
dsa_unregister_switch(W, s) ==
    LET d == W.ds[s].dst
    IN  dsa_dst_del_ds(dsa_dst_unapply(W, d), d, s, W.ds[s].index)

(***************************************************************************)
(* The answers of the collaborators a call is checked against.             *)
(***************************************************************************)
Env(live, tagOK, fail, slaveFail) ==
    [live |-> live, tagOK |-> tagOK, fail |-> fail, slaveFail |-> slaveFail]

\* every master device is live, there is a tagger, nothing fails
GoodEnv == Env(NetDevs, TRUE, NoFail, {})

\* the steps of the apply of switch t that can return an error
FailSites(W, t) ==
    {<<t, "setup", 0>>, <<t, "notifier", 0>>, <<t, "ethtool", 0>>}
    \cup (IF W.cfg[t].set_addr THEN {<<t, "set_addr", 0>>} ELSE {})
    \cup (IF W.cfg[t].phy_read
          THEN {<<t, "mdiobus_alloc", 0>>, <<t, "mdiobus_register", 0>>} ELSE {})
    \cup {<<t, "port", i>> : i \in {j \in PortIdx(W, t) :
              dsa_port_is_dsa(Port(W, t, j)) \/ dsa_port_is_cpu(Port(W, t, j))}}

\* the ports of switch t that dsa_ds_apply hands to dsa_user_port_apply
UserPorts(W, t) ==
    {<<t, i>> : i \in {j \in PortIdx(W, t) :
        /\ dsa_port_is_valid(Port(W, t, j))
        /\ ~dsa_port_is_dsa(Port(W, t, j))
        /\ ~dsa_port_is_cpu(Port(W, t, j))}}

\* The answers that can make a difference to a call whose run under GoodEnv
\* is g: the master devices and the tagger are asked for by dsa_dst_parse
\* only, the steps of apply by dsa_dst_apply only, and only for the switches
\* in the slots of the tree (and its cpu_switch).
EnvsOf(W, g) ==
    LET members == {g.w1.dst[g.dst].ds[i] : i \in Slots} \ {NULL}
        cpu == {g.w.dst[g.dst].cpu_switch} \ {NULL}
    IN  {GoodEnv}
        \cup (IF g.parse = NULL THEN {}
              ELSE {Env(live, TRUE, NoFail, {}) : live \in SUBSET NetDevs}
                   \cup {Env(NetDevs, FALSE, NoFail, {})})
        \cup (IF g.apply = NULL THEN {}
              ELSE {Env(NetDevs, TRUE, f, {}) :
                        f \in UNION {FailSites(W, t) : t \in members \cup cpu}}
                   \cup {Env(NetDevs, TRUE, NoFail, u) :
                        u \in SUBSET UNION {UserPorts(W, t) : t \in members}})

(***************************************************************************)
(* The drivers: a driver registers a switch it has not registered, with    *)
(* dsa2_mutex held from the beginning to the end of the call, and          *)
(* unregisters a switch whose registration returned 0.                     *)
(***************************************************************************)
\* what apply is about to change, per slot of tree d: the switch of the slot
\* with its enabled_port_mask, cpu_port_mask and rtable
NoSlots == [i \in Slots |-> NULL]
NoMasks == [i \in Slots |-> <<NULL, {}, {}, <<>>>>]
Masks(W, d) ==
    [i \in Slots |->
        LET t == W.dst[d].ds[i]
        IN  IF t = NULL THEN <<NULL, {}, {}, <<>>>>
            ELSE <<t, W.ds[t].enabled_port_mask, W.ds[t].cpu_port_mask,
                   W.ds[t].rtable>>]

\* last: the call that has just returned.  op, s: the call and its switch;
\* err: what it returned; dst: the tree it worked on; complete, parse, apply:
\* what dsa_dst_complete, dsa_dst_parse and dsa_dst_apply returned in it (NULL:
\* not called); ds: dst->ds[] when dsa_dst_complete was called (the members
\* the later steps run over); failed: the step of apply that returned the
\* error; pre: the masks and routing tables when a successful dsa_dst_apply
\* was entered.
NoCall == [op |-> NULL, s |-> NULL, err |-> NULL, dst |-> NULL_DST,
           complete |-> NULL, parse |-> NULL, apply |-> NULL,
           ds |-> NoSlots, failed |-> NoFail, pre |-> NoMasks]

\* the world dsa_dst_apply was entered with in the call that returned r
\* under env: what dsa_dst_parse left
BeforeApply(r, env) == dsa_dst_parse(r.w1, env, r.dst).w

Init ==
    /\ w = World(Catalogue)
    /\ probed = [s \in DOMAIN Catalogue |-> FALSE]
    /\ last = NoCall
    /\ calls = 0
    /\ alt = NULL
    /\ mutex = NULL
    /\ thread = NULL

Register(s) ==
    /\ calls < MaxCalls
    /\ ~probed[s]
    /\ \E g \in {dsa_register_switch(w, s, GoodEnv)} :
       \E env \in EnvsOf(w, g) :
       \E r \in {IF env = GoodEnv THEN g ELSE dsa_register_switch(w, s, env)} :
           /\ w' = r.w
           /\ probed' = [probed EXCEPT ![s] = (r.err = OK)]
           /\ last' = [op |-> "register", s |-> s, err |-> r.err, dst |-> r.dst,
                       complete |-> r.complete, parse |-> r.parse, apply |-> r.apply,
                       ds |-> IF r.complete = NULL THEN NoSlots
                              ELSE r.w1.dst[r.dst].ds,
                       failed |-> IF r.apply \in {NULL, OK} THEN NoFail ELSE env.fail,
                       pre |-> IF r.apply = OK THEN Masks(BeforeApply(r, env), r.dst)
                               ELSE NoMasks]
    /\ calls' = calls + 1
    /\ UNCHANGED <<alt, mutex, thread>>

Unregister(s) ==
    /\ calls < MaxCalls
    /\ probed[s]
    /\ w' = dsa_unregister_switch(w, s)
    /\ probed' = [probed EXCEPT ![s] = FALSE]
    /\ last' = [NoCall EXCEPT !.op = "unregister", !.s = s, !.dst = w.ds[s].dst]
    /\ calls' = calls + 1
    /\ UNCHANGED <<alt, mutex, thread>>

Next ==
    \/ \E s \in Switches(w) : Register(s)
    \/ \E s \in Switches(w) : Unregister(s)

Spec == Init /\ [][Next]_vars

(***************************************************************************)
(* Registration orders.  The switches a, b, c of one tree (indices 0, 1,   *)
(* 2) are registered twice, every collaborator answering as in GoodEnv: in *)
(* the world w in the order of their indices, in the world alt in any      *)
(* order.  Port 0 of a switch is a CPU port or a user port; port 1 is a    *)
(* DSA port with links to port 1 of other switches, or a user port.  Init  *)
(* draws the topology: the switches with a CPU port, and who links to whom,*)
(* the links forming no cycle.                                             *)
(***************************************************************************)
OrderSwitches == {"a", "b", "c"}
OrderSeq == <<"a", "b", "c">>
OrderIndex(s) == CHOOSE i \in 1..Len(OrderSeq) : OrderSeq[i] = s
Node0(s) == CASE s = "a" -> "a0" [] s = "b" -> "b0" [] s = "c" -> "c0"
Node1(s) == CASE s = "a" -> "a1" [] s = "b" -> "b1" [] s = "c" -> "c1"

\* the nodes of port 1 of the switches `to`, in the order of their indices
RECURSIVE LinkSeq(_, _)
LinkSeq(to, i) ==
    IF i > Len(OrderSeq) THEN <<>>
    ELSE (IF OrderSeq[i] \in to THEN <<Node1(OrderSeq[i])>> ELSE <<>>)
         \o LinkSeq(to, i + 1)

\* no set of switches in which each is linked with two others of the set
Acyclic(links) ==
    \A S \in SUBSET OrderSwitches :
        S # {} => \E s \in S :
            Cardinality({t \in S \ {s} : t \in links[s] \/ s \in links[t]}) < 2

Topology(cpus, links) ==
    [s \in OrderSwitches |->
        Switch(1, OrderIndex(s) - 1,
               <<IF s \in cpus THEN CpuPort(Node0(s), "eth0") ELSE UserPort(Node0(s)),
                 IF links[s] = {} THEN UserPort(Node1(s))
                 ELSE DsaPort(Node1(s), LinkSeq(links[s], 1))>>,
               FALSE, FALSE)]

Topologies ==
    {Topology(cpus, links) :
        cpus \in SUBSET OrderSwitches,
        links \in {l \in [OrderSwitches -> SUBSET OrderSwitches] :
                      (\A s \in OrderSwitches : s \notin l[s]) /\ Acyclic(l)}}

OrderInit ==
    /\ \E cfg \in Topologies : w = World(cfg) /\ alt = World(cfg)
    /\ probed = [s \in OrderSwitches |-> FALSE]
    /\ last = <<NoCall, NoCall>>
    /\ calls = 0
    /\ mutex = NULL
    /\ thread = NULL

\* the call of _dsa_register_switch as the record `last` keeps it
CallOf(s, r) ==
    [NoCall EXCEPT !.op = "register", !.s = s, !.err = r.err, !.dst = r.dst,
                   !.complete = r.complete, !.parse = r.parse, !.apply = r.apply]

RegisterBoth(s) ==
    /\ calls < Len(OrderSeq)
    /\ ~probed[s]
    /\ \E ra \in {dsa_register_switch(w, OrderSeq[calls + 1], GoodEnv)} :
       \E rb \in {dsa_register_switch(alt, s, GoodEnv)} :
           /\ w' = ra.w
           /\ alt' = rb.w
           /\ last' = <<CallOf(OrderSeq[calls + 1], ra), CallOf(s, rb)>>
    /\ probed' = [probed EXCEPT ![s] = TRUE]
    /\ calls' = calls + 1
    /\ UNCHANGED <<mutex, thread>>

OrderNext == \E s \in OrderSwitches : RegisterBoth(s)

SpecOrder == OrderInit /\ [][OrderNext]_vars

(***************************************************************************)
(* Two switches for one slot.  r0 has the "dsa,member" of s0 (tree 1,      *)
(* index 0); s1 and c are those of Catalogue.  The drivers are those of    *)
(* Spec.                                                                   *)
(***************************************************************************)
BusyCatalogue ==
    [s \in {"s0", "r0", "s1", "c"} |->
        IF s = "r0" THEN Switch(1, 0, <<UserPort("r0p0")>>, FALSE, FALSE)
        ELSE Catalogue[s]]

BusyInit ==
    /\ w = World(BusyCatalogue)
    /\ probed = [s \in DOMAIN BusyCatalogue |-> FALSE]
    /\ last = NoCall
    /\ calls = 0
    /\ alt = NULL
    /\ mutex = NULL
    /\ thread = NULL

SpecBusy == BusyInit /\ [][Next]_vars

(***************************************************************************)
(* Threads.  Each thread calls dsa_register_switch for a switch that is    *)
(* not registered, or dsa_unregister_switch for one whose registration     *)
(* returned 0, no two threads for the same switch at a time.  A call is    *)
(* mutex_lock(&dsa2_mutex), the body in two steps, mutex_unlock, return.   *)
(* The body of a registration: to the slot taken (or an early return), and *)
(* from dsa_dst_complete on; of an unregistration: dsa_dst_unapply, and    *)
(* dsa_dst_del_ds.  mutex is the owner of dsa2_mutex, NULL when unlocked.  *)
(***************************************************************************)
Threads == {"t1", "t2"}

\* the answers of the collaborators the calls of the threads meet: all well,
\* no master device live, no tagger, setup of the switch s failing
ThreadEnvs(s) ==
    {GoodEnv, Env({}, TRUE, NoFail, {}), Env(NetDevs, FALSE, NoFail, {}),
     Env(NetDevs, TRUE, <<s, "setup", 0>>, {})}

Idle == [pc |-> "idle", op |-> NULL, s |-> NULL, env |-> GoodEnv,
         dst |-> NULL_DST, err |-> NULL]

\* the switches of the threads: s0, s1 and c of Catalogue
ThreadCatalogue == [s \in {"s0", "s1", "c"} |-> Catalogue[s]]

ThreadInit ==
    /\ w = World(ThreadCatalogue)
    /\ probed = [s \in DOMAIN ThreadCatalogue |-> FALSE]
    /\ last = NoCall
    /\ calls = 0
    /\ alt = NULL
    /\ mutex = NULL
    /\ thread = [t \in Threads |-> Idle]

\* thread t is between its mutex_lock and its mutex_unlock
Inside(t) == thread[t].pc \in {"enter", "mid", "unlock"}

\* a mutex_lock that never waits
mutex_lock_always(m) == TRUE

\* mutex_lock(&dsa2_mutex) returns when the mutex is unlocked
mutex_lock_enabled(m) == m = NULL

Call(t, op, s) ==
    /\ calls < MaxCalls
    /\ thread[t].pc = "idle"
    /\ \A u \in Threads : thread[u].s # s
    /\ probed[s] = (op = "unregister")
    /\ \E env \in (IF op = "register" THEN ThreadEnvs(s) ELSE {GoodEnv}) :
           thread' = [thread EXCEPT ![t] = [Idle EXCEPT !.pc = "lock", !.op = op,
                                                        !.s = s, !.env = env]]
    /\ calls' = calls + 1
    /\ UNCHANGED <<w, probed, last, alt, mutex>>

Lock(t) ==
    /\ thread[t].pc = "lock"
    /\ mutex_lock_enabled(mutex)
    /\ mutex' = t
    /\ thread' = [thread EXCEPT ![t].pc = "enter"]
    /\ UNCHANGED <<w, probed, last, calls, alt>>

\* lines 647-698 of _dsa_register_switch, or dsa_dst_unapply
Enter(t) ==
    /\ thread[t].pc = "enter"
    /\ \/ /\ thread[t].op = "register"
          /\ \E r \in {dsa_register_switch(w, thread[t].s, thread[t].env)} :
                 IF r.complete = NULL
                 THEN /\ w' = r.w
                      /\ thread' = [thread EXCEPT ![t].pc = "unlock", ![t].err = r.err]
                 ELSE /\ w' = r.w0
                      /\ thread' = [thread EXCEPT ![t].pc = "mid", ![t].dst = r.dst]
       \/ /\ thread[t].op = "unregister"
          /\ w' = dsa_dst_unapply(w, w.ds[thread[t].s].dst)
          /\ thread' = [thread EXCEPT ![t].pc = "mid", ![t].dst = w.ds[thread[t].s].dst]
    /\ UNCHANGED <<probed, last, calls, alt, mutex>>

\* lines 700-740 of _dsa_register_switch, or dsa_dst_del_ds
Finish(t) ==
    /\ thread[t].pc = "mid"
    /\ \/ /\ thread[t].op = "register"
          /\ \E r \in {register_claimed(w, thread[t].env, thread[t].s, thread[t].dst)} :
                 /\ w' = r.w
                 /\ thread' = [thread EXCEPT ![t].pc = "unlock", ![t].err = r.err]
       \/ /\ thread[t].op = "unregister"
          /\ w' = dsa_dst_del_ds(w, thread[t].dst, thread[t].s, w.ds[thread[t].s].index)
          /\ thread' = [thread EXCEPT ![t].pc = "unlock", ![t].err = OK]
    /\ UNCHANGED <<probed, last, calls, alt, mutex>>

\* mutex_unlock(&dsa2_mutex); return err
Unlock(t) ==
    /\ thread[t].pc = "unlock"
    /\ mutex' = NULL
    /\ probed' = [probed EXCEPT ![thread[t].s] =
                      (thread[t].op = "register" /\ thread[t].err = OK)]
    /\ last' = [NoCall EXCEPT !.op = thread[t].op, !.s = thread[t].s,
                               !.err = thread[t].err, !.dst = thread[t].dst]
    /\ thread' = [thread EXCEPT ![t] = Idle]
    /\ UNCHANGED <<w, calls, alt>>

ThreadNext ==
    \E t \in Threads :
        \/ \E op \in {"register", "unregister"} : \E s \in Switches(w) : Call(t, op, s)
        \/ Lock(t)
        \/ Enter(t)
        \/ Finish(t)
        \/ Unlock(t)

SpecThreads == ThreadInit /\ [][ThreadNext]_vars

(***************************************************************************)
(* Port descriptors.  Port 0 of the switch p is drawn by Init: with a      *)
(* device node, any combination of a "link" phandle (to port 1 of q, or to *)
(* no port of the tree) and an "ethernet" phandle; or with a platform-data *)
(* name; or absent.  With a device node p is (tree 1, index 0), with       *)
(* platform data (tree 0, index 0).  q is (tree 1, index 1) with a CPU     *)
(* port.  The drivers are those of Spec.                                   *)
(***************************************************************************)
NodePorts ==
    {[dn |-> "p0", name |-> NULL, link |-> l, ethernet |-> e] :
        l \in {<<>>, <<"q1">>, <<"none">>}, e \in {NULL} \cup NetDevs}

NamePorts ==
    {[dn |-> NULL, name |-> n, link |-> <<>>, ethernet |-> e] :
        n \in {"dsa", "cpu", "lan"}, e \in {NULL, "eth0"}}

PortsCatalogue(port) ==
    [s \in {"p", "q"} |->
        IF s = "q"
        THEN Switch(1, 1, <<CpuPort("q0", "eth0"), UserPort("q1")>>, FALSE, FALSE)
        ELSE IF port \in NamePorts
        THEN [Switch(0, 0,
                     <<port, [dn |-> NULL, name |-> "cpu", link |-> <<>>,
                              ethernet |-> "eth0"]>>,
                     FALSE, FALSE) EXCEPT !.of_node = FALSE]
        ELSE Switch(1, 0, <<port, UserPort("p1")>>, FALSE, FALSE)]

PortsInit ==
    /\ \E port \in NodePorts \cup NamePorts \cup {NoPort} :
           w = World(PortsCatalogue(port))
    /\ probed = [s \in {"p", "q"} |-> FALSE]
    /\ last = NoCall
    /\ calls = 0
    /\ alt = NULL
    /\ mutex = NULL
    /\ thread = NULL

SpecPorts == PortsInit /\ [][Next]_vars

(***************************************************************************)
(* The steps of dsa_dst_apply and dsa_dst_unapply.  A call is at one       *)
(* position (thread.pc), dsa2_mutex held throughout: a register call that  *)
(* reaches dsa_dst_apply applies the switches slot by slot ("apply"),      *)
(* wires the statistics of the CPU switch, installs the hook ("hook") and  *)
(* returns ("return"); an unregister call detaches the hook ("detach"),    *)
(* tears the switches down slot by slot ("teardown"), and takes the switch *)
(* out of its slot ("del").                                                *)
(***************************************************************************)
HookCatalogue == [s \in {"s0", "s1", "c"} |-> Catalogue[s]]

NoStep == [pc |-> "idle", op |-> NULL, s |-> NULL, env |-> GoodEnv,
           dst |-> NULL_DST, index |-> 0, err |-> NULL, pre |-> NoMasks]

HookInit ==
    /\ w = World(HookCatalogue)
    /\ probed = [s \in DOMAIN HookCatalogue |-> FALSE]
    /\ last = NoCall
    /\ calls = 0
    /\ alt = NULL
    /\ mutex = NULL
    /\ thread = NoStep

\* lines 647-723: the call up to dsa_dst_apply, or to its return when it
\* does not get there
RegisterBegin(s) ==
    /\ thread.pc = "idle"
    /\ calls < MaxCalls
    /\ ~probed[s]
    /\ \E g \in {dsa_register_switch(w, s, GoodEnv)} :
       \E env \in EnvsOf(w, g) :
       \E r \in {IF env = GoodEnv THEN g ELSE dsa_register_switch(w, s, env)} :
           IF r.apply = NULL
           THEN /\ w' = r.w
                /\ probed' = [probed EXCEPT ![s] = (r.err = OK)]
                /\ last' = [op |-> "register", s |-> s, err |-> r.err,
                            dst |-> r.dst, complete |-> r.complete,
                            parse |-> r.parse, apply |-> NULL,
                            ds |-> IF r.complete = NULL THEN NoSlots
                                   ELSE r.w1.dst[r.dst].ds,
                            failed |-> NoFail, pre |-> NoMasks]
                /\ UNCHANGED thread
           ELSE /\ w' = BeforeApply(r, env)
                /\ thread' = [pc |-> "apply", op |-> "register", s |-> s,
                              env |-> env, dst |-> r.dst, index |-> 0,
                              err |-> OK,
                              pre |-> Masks(BeforeApply(r, env), r.dst)]
                /\ UNCHANGED <<probed, last>>
    /\ calls' = calls + 1
    /\ UNCHANGED <<alt, mutex>>

\* lines 392-400: one turn of the loop of dsa_dst_apply
ApplySwitch ==
    /\ thread.pc = "apply"
    /\ thread.index < DSA_MAX_SWITCHES
    /\ \E t \in {w.dst[thread.dst].ds[thread.index]} :
         IF t = NULL
         THEN /\ thread' = [thread EXCEPT !.index = @ + 1]
              /\ UNCHANGED w
         ELSE \E a \in {dsa_ds_apply(w, thread.env, thread.dst, t)} :
                /\ w' = a.w
                /\ thread' = IF a.err # OK
                             THEN [thread EXCEPT !.pc = "return", !.err = a.err]
                             ELSE [thread EXCEPT !.index = @ + 1]
    /\ UNCHANGED <<probed, last, calls, alt, mutex>>

\* lines 402-406: dsa_cpu_port_ethtool_setup of the CPU switch
ApplyEthtool ==
    /\ thread.pc = "apply"
    /\ thread.index = DSA_MAX_SWITCHES
    /\ \E a \in {dsa_dst_apply_ethtool(w, thread.env, thread.dst)} :
         /\ w' = a.w
         /\ thread' = IF a.err # OK
                      THEN [thread EXCEPT !.pc = "return", !.err = a.err]
                      ELSE [thread EXCEPT !.pc = "hook"]
    /\ UNCHANGED <<probed, last, calls, alt, mutex>>

\* lines 408-416: the hook is installed, the tree is applied
ApplyHook ==
    /\ thread.pc = "hook"
    /\ w' = dsa_dst_apply_hook(w, thread.dst).w
    /\ thread' = [thread EXCEPT !.pc = "return"]
    /\ UNCHANGED <<probed, last, calls, alt, mutex>>

\* lines 725-740: the call returns what dsa_dst_apply returned
RegisterReturn ==
    /\ thread.pc = "return"
    /\ \E c \in {[w |-> w, err |-> OK]} :
       \E r \in {register_applied([w |-> w, err |-> thread.err], thread.s,
                                   thread.dst, c, w, c)} :
         /\ w' = r.w
         /\ probed' = [probed EXCEPT ![thread.s] = (r.err = OK)]
         /\ last' = [op |-> "register", s |-> thread.s, err |-> r.err,
                     dst |-> thread.dst, complete |-> OK, parse |-> OK,
                     apply |-> r.err, ds |-> w.dst[thread.dst].ds,
                     failed |-> IF r.err = OK THEN NoFail ELSE thread.env.fail,
                     pre |-> IF r.err = OK THEN thread.pre ELSE NoMasks]
    /\ thread' = NoStep
    /\ UNCHANGED <<calls, alt, mutex>>

\* lines 776-780: the call up to dsa_dst_unapply
UnregisterBegin(s) ==
    /\ thread.pc = "idle"
    /\ calls < MaxCalls
    /\ probed[s]
    /\ thread' = [NoStep EXCEPT !.pc = "detach", !.op = "unregister", !.s = s,
                                !.dst = w.ds[s].dst]
    /\ calls' = calls + 1
    /\ UNCHANGED <<w, probed, last, alt, mutex>>

\* lines 424-433: nothing to do, or the hook is detached
UnapplyDetach ==
    /\ thread.pc = "detach"
    /\ IF ~w.dst[thread.dst].applied
       THEN /\ thread' = [thread EXCEPT !.pc = "del"]
            /\ UNCHANGED w
       ELSE /\ w' = dsa_dst_unapply_hook(w, thread.dst)
            /\ thread' = [thread EXCEPT !.pc = "teardown"]
    /\ UNCHANGED <<probed, last, calls, alt, mutex>>

\* lines 435-441: one turn of the loop of dsa_dst_unapply
UnapplySwitch ==
    /\ thread.pc = "teardown"
    /\ thread.index < DSA_MAX_SWITCHES
    /\ \E t \in {w.dst[thread.dst].ds[thread.index]} :
         w' = IF t = NULL THEN w ELSE dsa_ds_unapply(w, thread.dst, t)
    /\ thread' = [thread EXCEPT !.index = @ + 1]
    /\ UNCHANGED <<probed, last, calls, alt, mutex>>

\* lines 443-447: the statistics are restored, the tree is not applied
UnapplyTail ==
    /\ thread.pc = "teardown"
    /\ thread.index = DSA_MAX_SWITCHES
    /\ w' = dsa_dst_unapply_tail(w, thread.dst)
    /\ thread' = [thread EXCEPT !.pc = "del"]
    /\ UNCHANGED <<probed, last, calls, alt, mutex>>

\* line 782: the switch leaves its slot, the call returns
UnregisterReturn ==
    /\ thread.pc = "del"
    /\ w' = dsa_dst_del_ds(w, thread.dst, thread.s, w.ds[thread.s].index)
    /\ probed' = [probed EXCEPT ![thread.s] = FALSE]
    /\ last' = [NoCall EXCEPT !.op = "unregister", !.s = thread.s,
                              !.dst = thread.dst]
    /\ thread' = NoStep
    /\ UNCHANGED <<calls, alt, mutex>>

HookNext ==
    \/ \E s \in Switches(w) : RegisterBegin(s)
    \/ ApplySwitch
    \/ ApplyEthtool
    \/ ApplyHook
    \/ RegisterReturn
    \/ \E s \in Switches(w) : UnregisterBegin(s)
    \/ UnapplyDetach
    \/ UnapplySwitch
    \/ UnapplyTail
    \/ UnregisterReturn

SpecHook == HookInit /\ [][HookNext]_vars

(***************************************************************************)
(* The vocabulary of the properties.                                       *)
(***************************************************************************)
\* the trees that exist: allocated and not freed
TreesOf(W) == {d \in TreeObjs : W.dst[d].alive}
Trees == TreesOf(w)
\* the switches in the slots of a slot array
InSlots(ds) == {ds[i] : i \in Slots} \ {NULL}
Members(d) == InSlots(w.dst[d].ds)
\* Every "link" reference of every valid DSA port of the switches `members`
\* is the node of a port of one of them.
AllResolved(members) ==
    \A s \in members : \A i \in PortIdx(w, s) :
        (dsa_port_is_valid(Port(w, s, i)) /\ dsa_port_is_dsa(Port(w, s, i))) =>
            \A k \in 1..Len(Port(w, s, i).link) :
                \E t \in members : \E j \in PortIdx(w, t) :
                    Port(w, t, j).dn = Port(w, s, i).link[k]

\* the valid ports of s that are CPU ports
CpuPorts(s) ==
    {i \in PortIdx(w, s) : dsa_port_is_valid(Port(w, s, i)) /\ dsa_port_is_cpu(Port(w, s, i))}

\* The list of trees is sound: from the head, next leads through existing
\* trees back to the head, so that the walk of dsa_get_dst reads no freed
\* memory.
ListSound ==
    /\ w.lnext[HEAD] \in Nodes /\ w.lprev[HEAD] \in Nodes
    /\ \A d \in TreeObjs :
        w.dst[d].alive => (w.lnext[d] = HEAD /\ w.lprev[d] = HEAD)
    /\ \A n \in {w.lnext[HEAD], w.lprev[HEAD]} : n = HEAD \/ w.dst[n].alive

\* a switch a driver holds registered is in its slot of an existing tree, and
\* a slot holds a switch that points back to the tree
SlotsSound ==
    /\ \A s \in Switches(w) :
        probed[s] => /\ w.ds[s].dst \in Trees
                     /\ w.dst[w.ds[s].dst].ds[w.ds[s].index] = s
    /\ \A d \in Trees : \A i \in Slots :
        w.dst[d].ds[i] # NULL =>
            /\ w.ds[w.dst[d].ds[i]].dst = d
            /\ w.ds[w.dst[d].ds[i]].index = i
            /\ w.dst[d].refcount >= Cardinality(Members(d))

(***************************************************************************)
(* C1.  The registry holds at most one tree per tree id: while a tree with *)
(* id T has a member, no second tree with id T is created, so no two trees *)
(* with members have the same id.                                          *)
(***************************************************************************)
C1_OneTreePerId ==
    \A d1, d2 \in Trees :
        (w.dst[d1].tree = w.dst[d2].tree /\ Members(d1) # {} /\ Members(d2) # {})
            => d1 = d2

(***************************************************************************)
(* C2.  Between calls, the reference count of every tree is the number of  *)
(* its occupied slots (the reference a register call takes is released on  *)
(* every return path), and no tree without an occupied slot exists.        *)
(***************************************************************************)
C2_RefcountIsMembers ==
    \A d \in Trees :
        /\ w.dst[d].refcount = Cardinality(Members(d))
        /\ Members(d) # {}

(***************************************************************************)
(* C3.  Between calls, a tree is applied only if every link reference of   *)
(* every switch in its slots is resolved to a port of a switch in its      *)
(* slots.                                                                  *)
(***************************************************************************)
C3_AppliedIsResolved ==
    \A d \in Trees : w.dst[d].applied => AllResolved(Members(d))

(***************************************************************************)
(* C4.  A tree whose members have no CPU port is never applied.            *)
(***************************************************************************)
C4_NoCpuNotApplied ==
    \A d \in Trees :
        (\A s \in Members(d) : CpuPorts(s) = {}) => ~w.dst[d].applied

(***************************************************************************)
(* C5.  dsa_dst_complete returns 0 (Complete) exactly when every link      *)
(* reference of every valid DSA port of every occupied slot is a port of a *)
(* switch in a slot, and 1 (Incomplete) otherwise; after Incomplete the    *)
(* register call returns 0 and the switch is left in its slot.             *)
(***************************************************************************)
C5_CompleteIffResolved ==
    (last.op = "register" /\ last.complete # NULL) =>
        /\ last.complete \in {OK, INCOMPLETE}
        /\ (last.complete = OK) <=> AllResolved(InSlots(last.ds))
        /\ last.complete = INCOMPLETE =>
            /\ last.err = OK
            /\ last.dst \in Trees
            /\ w.dst[last.dst].ds = last.ds
            /\ last.ds[w.ds[last.s].index] = last.s

\* Incomplete with several switches in the slots
C5_Witness ==
    /\ last.op = "register"
    /\ last.complete = INCOMPLETE
    /\ Cardinality(InSlots(last.ds)) >= 2

(***************************************************************************)
(* C6.  When dsa_dst_complete returns 1 (Incomplete), no routing table     *)
(* entry and no dsa_port_mask bit of a switch in the slots differs from    *)
(* its value before the run (the routing table of the registering switch   *)
(* is DSA_RTABLE_NONE for every destination).                              *)
(***************************************************************************)
C6_NoPartialRouting ==
    [][(last'.op = "register" /\ last'.complete = INCOMPLETE) =>
          \A t \in InSlots(last'.ds) :
              /\ w'.ds[t].dsa_port_mask = w.ds[t].dsa_port_mask
              /\ w'.ds[t].rtable = IF t = last'.s
                                   THEN [i \in Slots |-> DSA_RTABLE_NONE]
                                   ELSE w.ds[t].rtable]_vars

(***************************************************************************)
(* C8.  A successful apply followed by unapply restores, for every switch  *)
(* in the slots, enabled_port_mask, cpu_port_mask and rtable to the values *)
(* they had when apply was entered.                                        *)
(***************************************************************************)
C8_ApplyUnapplyRestores ==
    [][(/\ last.op = "register" /\ last.apply = OK
        /\ last'.op = "unregister" /\ last'.dst = last.dst) =>
          \A i \in Slots :
              last.pre[i][1] # NULL =>
                  /\ w'.ds[last.pre[i][1]].enabled_port_mask = last.pre[i][2]
                  /\ w'.ds[last.pre[i][1]].cpu_port_mask = last.pre[i][3]
                  /\ w'.ds[last.pre[i][1]].rtable = last.pre[i][4]]_vars

(***************************************************************************)
(* C9.  When register returns -EPROBE_DEFER, the attempt is unwound: the   *)
(* slot of the registering switch is vacant, and the set of trees, the     *)
(* slots of every tree and every reference count are those of before the   *)
(* call.                                                                   *)
(***************************************************************************)
C9_DeferUnwound ==
    [][(last'.op = "register" /\ last'.err = EPROBE_DEFER) =>
          /\ TreesOf(w') = TreesOf(w)
          /\ \A d \in TreesOf(w) :
              /\ w'.dst[d].ds = w.dst[d].ds
              /\ w'.dst[d].refcount = w.dst[d].refcount
          /\ \A d \in TreesOf(w') : last'.s \notin InSlots(w'.dst[d].ds)]_vars

C7_OrderIndependent ==
    calls = Len(OrderSeq) =>
        /\ \A s \in OrderSwitches : w.ds[s].rtable = alt.ds[s].rtable
        /\ last[1].complete = last[2].complete

(***************************************************************************)
(* C11.  A register call for a switch whose (tree id, index) is the slot   *)
(* of another switch returns -EBUSY and leaves that switch untouched: it   *)
(* is still in the slot, its fields (routing table and masks among them)   *)
(* are unchanged, and the reference count and the applied flag of the tree *)
(* are those of before the call.                                           *)
(***************************************************************************)
C11_BusyLeavesFirst ==
    [][last'.op = "register" =>
          \A d \in TreesOf(w) :
              LET first == w.dst[d].ds[member_index(w, last'.s)]
              IN  (/\ w.dst[d].tree = member_tree(w, last'.s)
                   /\ first # NULL /\ first # last'.s) =>
                      /\ last'.err = EBUSY
                      /\ w'.dst[d].alive
                      /\ w'.dst[d].ds = w.dst[d].ds
                      /\ w'.dst[d].refcount = w.dst[d].refcount
                      /\ w'.dst[d].applied = w.dst[d].applied
                      /\ w'.ds[first] = w.ds[first]]_vars

(***************************************************************************)
(* C12.  With s0 = (tree 1, index 0) and s1 = (tree 1, index 1), port 2 of *)
(* s0 and port 0 of s1 linked to each other, port 3 of s1 a CPU port:      *)
(* registering s0 first returns 0 with dsa_dst_complete returning 1 and    *)
(* the tree not applied; registering s1 next, the master device live, the  *)
(* tag protocol supported and no step of apply failing, returns 0 with     *)
(* s0->rtable[1] = 2, s1->rtable[0] = 0, cpu_switch = s1, cpu_port = 3 and *)
(* the tree applied.                                                       *)
(***************************************************************************)
C12_TwoSwitchScenario ==
    [][/\ (calls = 0 /\ last'.op = "register" /\ last'.s = "s0") =>
              /\ last'.err = OK
              /\ last'.complete = INCOMPLETE
              /\ last'.dst \in TreesOf(w')
              /\ ~w'.dst[last'.dst].applied
       /\ (/\ calls = 1 /\ last.op = "register" /\ last.s = "s0"
           /\ last'.op = "register" /\ last'.s = "s1"
           /\ \E u \in SUBSET (UserPorts(w, "s0") \cup UserPorts(w, "s1")) :
                  w' = dsa_register_switch(w, "s1", Env(NetDevs, TRUE, NoFail, u)).w) =>
              /\ last'.err = OK
              /\ last'.complete = OK
              /\ last'.dst = last.dst
              /\ w'.ds["s0"].rtable[1] = 2
              /\ w'.ds["s1"].rtable[0] = 0
              /\ w'.dst[last'.dst].cpu_switch = "s1"
              /\ w'.dst[last'.dst].cpu_port = 3
              /\ w'.dst[last'.dst].applied]_vars

\* s1 registered after s0, both in the slots of the applied tree
C12_Witness ==
    /\ calls = 2
    /\ last.op = "register" /\ last.s = "s1" /\ last.apply = OK
    /\ w.dst[last.dst].ds[0] = "s0" /\ w.dst[last.dst].ds[1] = "s1"
    /\ w.dst[last.dst].applied

(***************************************************************************)
(* C13.  With threads calling dsa_register_switch and                      *)
(* dsa_unregister_switch concurrently, at most one call is between its     *)
(* mutex_lock and its mutex_unlock at a time, that call owns dsa2_mutex,   *)
(* and a call that has returned (whatever it returns) does not own it.     *)
(***************************************************************************)
C13_OneCallInside ==
    /\ \A t, u \in Threads : (Inside(t) /\ Inside(u)) => t = u
    /\ \A t \in Threads : Inside(t) <=> mutex = t
    /\ mutex \in Threads \cup {NULL}

\* a call has returned -EPROBE_DEFER and left the mutex unlocked, while
\* another thread waits in mutex_lock
C13_Witness ==
    /\ last.op = "register" /\ last.err = EPROBE_DEFER
    /\ mutex = NULL
    /\ \E t \in Threads : thread[t].pc = "lock"

(***************************************************************************)
(* C14.  Every step treats a port as one and the same class.  What the     *)
(* steps leave tells how they treated port i of switch s: as a DSA port,   *)
(* dsa_ds_complete sets its bit in dsa_port_mask and dsa_ds_apply sets up  *)
(* its uplink without a bit in cpu_port_mask; as a CPU port, dsa_ds_parse  *)
(* elects it (cpu_switch, cpu_port) and dsa_ds_apply sets its bit in       *)
(* cpu_port_mask; as a user port, dsa_ds_apply creates its slave device.   *)
(* No port is treated as more than one class.                              *)
(***************************************************************************)
C14_OneClassPerPort ==
    \A s \in Switches(w) : \A i \in PortIdx(w, s) :
        LET elected == \E d \in Trees : /\ w.dst[d].cpu_switch = s
                                        /\ w.dst[d].cpu_port = i
            asDsa  == \/ i \in w.ds[s].dsa_port_mask
                      \/ (i \in w.ds[s].uplink /\ i \notin w.ds[s].cpu_port_mask)
            asCpu  == i \in w.ds[s].cpu_port_mask \/ elected
            asUser == i \in w.ds[s].netdev
        IN  /\ ~(asDsa /\ asCpu)
            /\ ~(asDsa /\ asUser)
            /\ ~(asCpu /\ asUser)

(***************************************************************************)
(* C15.  A failed apply is rolled back: when a register call returns with  *)
(* an error of dsa_dst_apply, no switch that was in a slot of the tree     *)
(* during the call keeps a registered notifier, a set-up uplink, a bit in  *)
(* cpu_port_mask or a live slave device.                                   *)
(***************************************************************************)
C15_FailedApplyRolledBack ==
    (last.op = "register" /\ last.apply \notin {NULL, OK}) =>
        \A t \in InSlots(last.ds) :
            /\ ~w.ds[t].notifier
            /\ w.ds[t].uplink = {}
            /\ w.ds[t].cpu_port_mask = {}
            /\ w.ds[t].netdev = {}

(***************************************************************************)
(* C16.  A register call that finds its tree complete and already applied  *)
(* returns -EINVAL and undoes nothing: the new switch stays in its slot,   *)
(* the tree stays applied with its hook on the master device, and no       *)
(* switch that was in a slot before the call is changed.                   *)
(***************************************************************************)
C16_DisjointUndoesNothing ==
    [][\A d \in Trees :
          (/\ last'.op = "register" /\ last'.dst = d /\ last'.complete = OK
           /\ w.dst[d].applied)
          => /\ last'.err = EINVAL
             /\ w'.dst[d].alive /\ w'.dst[d].applied
             /\ w'.dst[d].ds[w'.ds[last'.s].index] = last'.s
             /\ \A i \in Slots :
                    w.dst[d].ds[i] # NULL => w'.dst[d].ds[i] = w.dst[d].ds[i]
             /\ \A t \in Members(d) : w'.ds[t] = w.ds[t]
             /\ w'.dsa_ptr = w.dsa_ptr]_vars

\* the call has returned -EINVAL on an applied tree, the switch in its slot
\* next to a switch that is still set up
C16_Witness ==
    /\ last.op = "register" /\ last.err = EINVAL /\ last.complete = OK
    /\ last.dst \in Trees
    /\ w.dst[last.dst].applied
    /\ last.s \in Members(last.dst)
    /\ \E t \in Members(last.dst) \ {last.s} :
           w.ds[t].notifier /\ w.ds[t].cpu_port_mask # {}
    /\ w.dsa_ptr[w.dst[last.dst].master_netdev] = last.dst

(***************************************************************************)
(* C17.  The hook of the master device (dsa_ptr) is installed only after   *)
(* every switch in a slot is set up and the statistics of the CPU switch   *)
(* are wired, and it is detached before any switch is torn down: the step  *)
(* that installs the hook of tree d finds every member of d set up; while  *)
(* the hook of d stays installed no step tears down a member of d; and     *)
(* when dsa_dst_apply has failed, no master device carries the hook of     *)
(* its tree, before or after the register call returns.                    *)
(***************************************************************************)
\* what dsa_ds_apply leaves of switch t when it returns 0 (slave devices may
\* be missing: the error of dsa_user_port_apply is ignored)
SetUp(W, t) ==
    /\ W.ds[t].notifier
    /\ \A i \in PortIdx(W, t) :
          LET port == Port(W, t, i)
          IN  /\ (dsa_port_is_valid(port) /\ dsa_port_is_dsa(port))
                    => i \in W.ds[t].uplink
              /\ (dsa_port_is_valid(port) /\ ~dsa_port_is_dsa(port)
                    /\ dsa_port_is_cpu(port))
                    => i \in W.ds[t].uplink /\ i \in W.ds[t].cpu_port_mask

C17_HookAfterSetupBeforeTeardown ==
    [][/\ \A m \in NetDevs : \A d \in TreeObjs :
             w'.dsa_ptr[m] = d =>
                 IF w.dsa_ptr[m] # d
                 THEN /\ w'.dst[d].alive
                      /\ \A t \in InSlots(w'.dst[d].ds) : SetUp(w', t)
                      /\ w'.dst[d].cpu_switch # NULL
                            => w'.ds[w'.dst[d].cpu_switch].ethtool
                 ELSE /\ w'.dst[d].alive
                      /\ \A t \in InSlots(w.dst[d].ds) :
                            /\ w.ds[t].notifier => w'.ds[t].notifier
                            /\ w.ds[t].uplink \subseteq w'.ds[t].uplink
                            /\ w.ds[t].cpu_port_mask \subseteq w'.ds[t].cpu_port_mask
                            /\ w.ds[t].netdev \subseteq w'.ds[t].netdev
                            /\ w.ds[t].mii_registered => w'.ds[t].mii_registered
       /\ (thread.pc = "return" /\ thread.err # OK)
             => \A m \in NetDevs : /\ w.dsa_ptr[m] # thread.dst
                                    /\ w'.dsa_ptr[m] # thread.dst]_vars

\* an unregister call is tearing down the second switch of a tree whose
\* hook it has detached, after a register call installed it
C17_Witness ==
    /\ thread.pc = "teardown" /\ thread.index > 0
    /\ \E i \in Slots : i < thread.index /\ w.dst[thread.dst].ds[i] # NULL
    /\ last.op = "register" /\ last.apply = OK /\ last.dst = thread.dst
    /\ w.dsa_ptr[w.dst[thread.dst].master_netdev] = NULL_DST
    /\ \E t \in InSlots(w.dst[thread.dst].ds) : ~w.ds[t].notifier

(***************************************************************************)
(* C18.  When unregister(s) returns, the tree of s is not applied, the     *)
(* slot of s is empty and the other slots of the tree are as they were.    *)
(* When the tree was not applied before the call, nothing else changes     *)
(* but the reference that is dropped: no switch and no master device is    *)
(* touched, the tree keeps its fields (or is freed with its last           *)
(* reference), and every other tree is left as it was, found by            *)
(* dsa_get_dst as before.                                                  *)
(***************************************************************************)
C18_UnregisterVacatesOnly ==
    [][(last'.op = "unregister" /\ calls' = calls + 1) =>
          LET s == last'.s
              d == last'.dst
              i == w.ds[s].index
          IN  /\ ~w'.dst[d].applied
              /\ w'.dst[d].ds[i] = NULL
              /\ w'.dst[d].alive =>
                    \A j \in Slots \ {i} : w'.dst[d].ds[j] = w.dst[d].ds[j]
              /\ ~w.dst[d].applied =>
                    /\ w'.ds = w.ds
                    /\ w'.dsa_ptr = w.dsa_ptr
                    /\ w'.dst[d] = IF w.dst[d].refcount = 1 THEN ZeroDst
                                   ELSE [w.dst[d] EXCEPT !.ds[i] = NULL,
                                                         !.refcount = @ - 1]
                    /\ \A e \in TreesOf(w) \ {d} :
                          /\ w'.dst[e] = w.dst[e]
                          /\ dsa_get_dst(w, w.dst[e].tree).dst = e
                                => dsa_get_dst(w', w.dst[e].tree).dst = e]_vars

(***************************************************************************)
(* C19.  The elected CPU switch of an applied tree is a switch in a slot   *)
(* of that tree, and the elected CPU port is a valid CPU port of it.       *)
(***************************************************************************)
C19_CpuSwitchIsMember ==
    \A d \in Trees :
        w.dst[d].applied =>
            /\ w.dst[d].cpu_switch \in Members(d)
            /\ w.dst[d].cpu_port \in CpuPorts(w.dst[d].cpu_switch)

(***************************************************************************)
(* C20.  Between calls, an entry of the routing table of a switch in a     *)
(* slot of a tree is a port only for a destination index whose slot is     *)
(* occupied, by the switch owning a port that a link of that port points   *)
(* to; no entry still points to a switch that has left its slot.           *)
(***************************************************************************)
C20_RoutesToMembers ==
    \A d \in Trees : \A s \in Members(d) : \A j \in Slots :
        w.ds[s].rtable[j] # DSA_RTABLE_NONE =>
            /\ w.dst[d].ds[j] # NULL
            /\ w.ds[s].rtable[j] \in PortIdx(w, s)
            /\ LET port == Port(w, s, w.ds[s].rtable[j])
               IN  /\ dsa_port_is_valid(port) /\ dsa_port_is_dsa(port)
                   /\ \E k \in 1..Len(port.link) :
                         dsa_ds_find_port_dn(w, w.dst[d].ds[j], port.link[k])

====
